---- MODULE Spec2Model ----
(***************************************************************************)
(* A model of scripts/validate_versions.py: the changelog validator, the   *)
(* release-notes extractor and the command dispatcher.                     *)
(*                                                                         *)
(* A Python str is modelled as a sequence of one-character strings, so     *)
(* that the regular expressions of the script are matched character by     *)
(* character (the class \s contains the newline, ^ and $ are the           *)
(* MULTILINE anchors). The characters are those of ASCII.                  *)
(*                                                                         *)
(* The disk of a run holds the repository and nothing else: ROOT, the      *)
(* parent of the directory of the script, is the root directory and the    *)
(* working directory of the process, as in a container made of a checkout. *)
(* It holds CHANGELOG.md and scripts/validate_versions.py. The changelog   *)
(* has no carriage return, so that read_text returns its text as it is.    *)
(* Of an exception that leaves main, the last line of the traceback is     *)
(* kept.                                                                   *)
(***************************************************************************)
EXTENDS Integers, Sequences, FiniteSets, TLC

VARIABLES
    argv,               \* sys.argv[1:], a list of tokens
    content,            \* text of CHANGELOG.md when the run starts, as read_text returns it
    args,               \* argparse namespace of main (parsed is FALSE until parse_args returns one)
    pc,                 \* position of the run
    headings,           \* validate_changelog: list of (version, date)
    idx,                \* validate_changelog: 1-based position of the for loop
    seen,               \* validate_changelog: set of version strings
    previous_version,   \* validate_changelog: <<>> for None, else a triple
    result,             \* validate_changelog: [ok, info]
    extract,            \* extract_release_notes: [called, version, raised, notes]
    stdout,             \* lines printed to sys.stdout
    stderr,             \* lines printed to sys.stderr
    exit_code,          \* process status, -1 while running
    files               \* the files of the disk: set of [path, text]

vars == <<argv, content, args, pc, headings, idx, seen, previous_version, result,
          extract, stdout, stderr, exit_code, files>>

-----------------------------------------------------------------------------
(* Characters and the regular-expression primitives                        *)

\* \s of the re module and the characters str.strip() removes, among the
\* ASCII characters: tab, newline, vertical tab, form feed, carriage return,
\* the separators of codes 28 to 31, and the space
Whitespace == {"\t", "\n", "", "\f", "\r", "", "", "", "", " "}

\* \d
Digits == {"0", "1", "2", "3", "4", "5", "6", "7", "8", "9"}

\* int() of one decimal digit
DigitVal(ch) ==
    CASE ch = "0" -> 0 [] ch = "1" -> 1 [] ch = "2" -> 2 [] ch = "3" -> 3
      [] ch = "4" -> 4 [] ch = "5" -> 5 [] ch = "6" -> 6 [] ch = "7" -> 7
      [] ch = "8" -> 8 [] ch = "9" -> 9

\* int() of a non-empty string of decimal digits (leading zeros allowed)
RECURSIVE ToInt(_)
ToInt(s) ==
    IF s = <<>> THEN 0
    ELSE 10 * ToInt(SubSeq(s, 1, Len(s) - 1)) + DigitVal(s[Len(s)])

\* the character at 1-based position p, "" past the end
CharAt(c, p) == IF p >= 1 /\ p <= Len(c) THEN c[p] ELSE ""

\* the text c[p .. q-1]
Slice(c, p, q) == SubSeq(c, p, q - 1)

\* first position >= p whose character is not in S (Len(c)+1 when none):
\* where a greedy S* or S+ that started at p stops
SkipWhile(c, p, S) ==
    CHOOSE q \in p..(Len(c) + 1) :
        /\ CharAt(c, q) \notin S
        /\ \A r \in p..(q - 1) : c[r] \in S

\* the literal lit stands at position p
LiteralAt(c, p, lit) ==
    /\ p + Len(lit) - 1 <= Len(c)
    /\ \A k \in 1..Len(lit) : c[p + k - 1] = lit[k]

\* ^ with re.MULTILINE
AtLineStart(c, p) == p = 1 \/ c[p - 1] = "\n"

\* $ with re.MULTILINE
AtLineEnd(c, p) == p = Len(c) + 1 \/ c[p] = "\n"

\* \d{n} at p
DigitsAt(c, p, n) == \A k \in 0..(n - 1) : CharAt(c, p + k) \in Digits

NoMatch == [ok |-> FALSE, start |-> 0, end |-> 0, version |-> <<>>, date |-> <<>>]

\* \s+-\s+\d{4}-\d{2}-\d{2}\s*$ from position ve, for a heading that started
\* at p and whose version is c[vs .. ve-1]; end is exclusive
MatchTail(c, p, vs, ve) ==
    LET e1 == SkipWhile(c, ve, Whitespace)
        e2 == SkipWhile(c, e1 + 1, Whitespace)
        de == e2 + 10
        r  == SkipWhile(c, de, Whitespace)
        ends == {e \in de..r : AtLineEnd(c, e)}
    IN  IF /\ e1 > ve
           /\ CharAt(c, e1) = "-"
           /\ e2 > e1 + 1
           /\ DigitsAt(c, e2, 4)
           /\ CharAt(c, e2 + 4) = "-"
           /\ DigitsAt(c, e2 + 5, 2)
           /\ CharAt(c, e2 + 7) = "-"
           /\ DigitsAt(c, e2 + 8, 2)
           /\ ends # {}
        THEN [ok |-> TRUE, start |-> p,
              end |-> CHOOSE e \in ends : \A f \in ends : f <= e,
              version |-> Slice(c, vs, ve), date |-> Slice(c, e2, de)]
        ELSE NoMatch

\* HEADING_RE.match at position p:
\* ^##\s+(?P<version>\d+\.\d+\.\d+)\s+-\s+(?P<date>\d{4}-\d{2}-\d{2})\s*$
HeadingAt(c, p) ==
    LET vs == SkipWhile(c, p + 2, Whitespace)
        d1 == SkipWhile(c, vs, Digits)
        d2 == SkipWhile(c, d1 + 1, Digits)
        d3 == SkipWhile(c, d2 + 1, Digits)
    IN  IF /\ p <= Len(c)
           /\ AtLineStart(c, p)
           /\ LiteralAt(c, p, <<"#", "#">>)
           /\ vs > p + 2
           /\ d1 > vs
           /\ CharAt(c, d1) = "."
           /\ d2 > d1 + 1
           /\ CharAt(c, d2) = "."
           /\ d3 > d2 + 1
        THEN MatchTail(c, p, vs, d3)
        ELSE NoMatch

\* of the attempts of a backtracking search, one per place, the successful one
\* at the last place
LastOk(tries) ==
    LET places == {vs \in DOMAIN tries : tries[vs].ok}
    IN  IF places = {} THEN NoMatch
        ELSE tries[CHOOSE a \in places : \A b \in places : b <= a]

\* the pattern of extract_release_notes at position p, the version taken
\* literally (re.escape):
\* ^##\s+{re.escape(version)}\s+-\s+\d{4}-\d{2}-\d{2}\s*$
\* The first \s+ is greedy and gives back: of the places after one or more
\* whitespace characters where the version stands and the rest matches, the
\* last one is taken.
VersionHeadingAt(c, p, version) ==
    IF /\ p <= Len(c)
       /\ AtLineStart(c, p)
       /\ LiteralAt(c, p, <<"#", "#">>)
    THEN LastOk([vs \in (p + 3)..SkipWhile(c, p + 2, Whitespace) |->
                    IF LiteralAt(c, vs, version)
                    THEN MatchTail(c, p, vs, vs + Len(version))
                    ELSE NoMatch])
    ELSE NoMatch

\* HEADING_RE.finditer(content) from position p: the non-overlapping matches,
\* left to right
RECURSIVE FindIter(_, _)
FindIter(c, p) ==
    IF p > Len(c) THEN <<>>
    ELSE LET m == HeadingAt(c, p)
         IN  IF m.ok THEN <<m>> \o FindIter(c, m.end)
             ELSE FindIter(c, p + 1)

\* re.search(r"^##\s+\d+\.\d+\.\d+\s+-\s+\d{4}-\d{2}-\d{2}\s*$", c, re.MULTILINE)
SearchHeading(c) ==
    LET hits == {p \in 1..Len(c) : HeadingAt(c, p).ok}
    IN  IF hits = {} THEN NoMatch
        ELSE HeadingAt(c, CHOOSE p \in hits : \A q \in hits : p <= q)

\* of the matches found at the positions of a text, the leftmost
FirstOk(matches) ==
    LET found == {m \in matches : m.ok}
    IN  IF found = {} THEN NoMatch
        ELSE CHOOSE m \in found : \A n \in found : m.start <= n.start

\* re.search(pattern, c, re.MULTILINE) for the pattern of one version
SearchVersion(c, version) ==
    FirstOk({VersionHeadingAt(c, p, version) : p \in 1..Len(c)})

\* variant: str.rstrip()
StripRight(s) ==
    LET keep == {k \in 1..Len(s) : s[k] \notin Whitespace}
    IN  IF keep = {} THEN <<>>
        ELSE SubSeq(s, 1, CHOOSE a \in keep : \A b \in keep : b <= a)

\* str.strip()
Strip(s) ==
    LET keep == {k \in 1..Len(s) : s[k] \notin Whitespace}
    IN  IF keep = {} THEN <<>>
        ELSE SubSeq(s, CHOOSE a \in keep : \A b \in keep : a <= b,
                       CHOOSE a \in keep : \A b \in keep : b <= a)

\* variant: only the first character is compared
StartsWithFirstChar(c, prefix) == Len(c) >= 1 /\ c[1] = prefix[1]

\* str.startswith
StartsWith(c, prefix) == LiteralAt(c, 1, prefix)

-----------------------------------------------------------------------------
(* Versions and dates                                                      *)

\* str.split(".") of a version string: the three dot-separated fields
SplitVersion(version) ==
    LET dots == {k \in 1..Len(version) : version[k] = "."}
        a == CHOOSE k \in dots : \A j \in dots : k <= j
        b == CHOOSE k \in dots : \A j \in dots : j <= k
    IN  <<Slice(version, 1, a), Slice(version, a + 1, b),
          Slice(version, b + 1, Len(version) + 1)>>

\* parse_semver
ParseSemver(version) ==
    LET parts == SplitVersion(version)
    IN  <<ToInt(parts[1]), ToInt(parts[2]), ToInt(parts[3])>>

\* variant: >= holds as soon as one component is >=
TupleGEAny(a, b) == a[1] >= b[1] \/ a[2] >= b[2] \/ a[3] >= b[3]

\* variant: > in the place of >=
TupleGT(a, b) ==
    \/ a[1] > b[1]
    \/ a[1] = b[1] /\ a[2] > b[2]
    \/ a[1] = b[1] /\ a[2] = b[2] /\ a[3] > b[3]

\* semver >= previous_version on tuples of three ints (lexicographic)
TupleGE(a, b) ==
    \/ a[1] > b[1]
    \/ a[1] = b[1] /\ a[2] > b[2]
    \/ a[1] = b[1] /\ a[2] = b[2] /\ a[3] >= b[3]

\* calendar: is year a leap year
IsLeap(year) == year % 4 = 0 /\ (year % 100 # 0 \/ year % 400 = 0)

\* calendar: days of a month
DaysInMonth(year, month) ==
    IF month = 2 THEN (IF IsLeap(year) THEN 29 ELSE 28)
    ELSE IF month \in {4, 6, 9, 11} THEN 30 ELSE 31

\* dt.date.fromisoformat(date_value) does not raise ValueError, for a
\* date_value of the shape \d{4}-\d{2}-\d{2}
DateIsValid(date_value) ==
    LET year  == ToInt(SubSeq(date_value, 1, 4))
        month == ToInt(SubSeq(date_value, 6, 7))
        day   == ToInt(SubSeq(date_value, 9, 10))
    IN  /\ year >= 1
        /\ month >= 1 /\ month <= 12
        /\ day >= 1 /\ day <= DaysInMonth(year, month)

\* load_headings
LoadHeadings(c) ==
    LET ms == FindIter(c, 1)
    IN  [k \in 1..Len(ms) |-> <<ms[k].version, ms[k].date>>]

\* variant: the next heading is searched in the whole text, not after the match
ExtractReleaseNotesWholeSearch(c, version) ==
    LET match == SearchVersion(c, version)
        start == match.end
        next_match == SearchHeading(c)
        end   == IF next_match.ok /\ next_match.start >= start THEN next_match.start
                 ELSE IF next_match.ok THEN start
                 ELSE Len(c) + 1
        notes == Strip(Slice(c, start, end))
    IN  IF ~match.ok
        THEN [raised |-> TRUE,
              notes |-> <<"No changelog entry for ">> \o version]
        ELSE [raised |-> FALSE,
              notes |-> IF notes = <<>> THEN <<"Release v">> \o version
                        ELSE notes]

\* variant: a version without an entry gets the placeholder, nothing is raised
ExtractReleaseNotesNoRaise(c, version) ==
    LET match == SearchVersion(c, version)
        start == match.end
        rest  == SubSeq(c, start, Len(c))
        next_match == SearchHeading(rest)
        end   == IF next_match.ok THEN start + next_match.start - 1
                 ELSE Len(c) + 1
        notes == IF match.ok THEN Strip(Slice(c, start, end)) ELSE <<>>
    IN  [raised |-> FALSE,
         notes |-> IF notes = <<>> THEN <<"Release v">> \o version ELSE notes]

\* extract_release_notes: raised is the ValueError "No changelog entry"
ExtractReleaseNotes(c, version) ==
    LET match == SearchVersion(c, version)
        start == match.end
        rest  == SubSeq(c, start, Len(c))
        next_match == SearchHeading(rest)
        end   == IF next_match.ok THEN start + next_match.start - 1
                 ELSE Len(c) + 1
        notes == Strip(Slice(c, start, end))
    IN  IF ~match.ok
        THEN [raised |-> TRUE,
              notes |-> <<"No changelog entry for ">> \o version]
        ELSE [raised |-> FALSE,
              notes |-> IF notes = <<>> THEN <<"Release v">> \o version
                        ELSE notes]

-----------------------------------------------------------------------------
(* The texts and arguments the model runs on                               *)

\* most lines of a changelog body
MaxSegs == 3

Title == <<"#", " ", "C", "h", "a", "n", "g", "e", "l", "o", "g">>

V200  == <<"2", ".", "0", ".", "0">>
V100  == <<"1", ".", "0", ".", "0">>
V0100 == <<"0", "1", ".", "0", ".", "0">>
V1000 == <<"1", "0", ".", "0", ".", "0">>
V120  == <<"1", ".", "2", ".", "0">>
V999  == <<"9", ".", "9", ".", "9">>
VOne  == <<"1">>

DJun1  == <<"2", "0", "2", "4", "-", "0", "6", "-", "0", "1">>
DJan1  == <<"2", "0", "2", "4", "-", "0", "1", "-", "0", "1">>
DFeb29 == <<"2", "0", "2", "4", "-", "0", "2", "-", "2", "9">>
DFeb30 == <<"2", "0", "2", "4", "-", "0", "2", "-", "3", "0">>
DDec31 == <<"2", "0", "2", "3", "-", "1", "2", "-", "3", "1">>

\* the line "## <version> - <date>"
HeadingLine(version, date) ==
    <<"#", "#", " ">> \o version \o <<" ", "-", " ">> \o date \o <<"\n">>

\* the pieces a changelog body is put together from
Segments ==
    << HeadingLine(V200, DJun1),
       HeadingLine(V100, DJan1),
       HeadingLine(V0100, DJan1),
       HeadingLine(V1000, DFeb29),
       HeadingLine(V100, DFeb30),
       <<"#", "#", "\n">> \o V120 \o <<" ", " ", "-", " ", " ">> \o DDec31 \o <<" ", "\n">>,
       <<"a", "b", "\n">>,
       <<"a", "b">> >>

\* what a changelog starts with
Prefixes ==
    << Title \o <<"\n">>,
       Title \o <<"s", "\n">>,
       <<>> >>

RECURSIVE Concat(_, _)
Concat(segs, choice) ==
    IF choice = <<>> THEN <<>>
    ELSE segs[Head(choice)] \o Concat(segs, Tail(choice))

\* every text made of a start and at most MaxSegs pieces
Documents(prefixes, segs) ==
    { prefixes[a] \o Concat(segs, choice) :
        a \in 1..Len(prefixes),
        choice \in UNION {[1..n -> 1..Len(segs)] : n \in 0..MaxSegs} }

\* versions extract_release_notes is called with
ExtractVersions == {V200, V100, V120, V999}

\* an Optional[str] of the argparse namespace: given is FALSE for None
None == [given |-> FALSE, val |-> <<>>, list |-> FALSE]
Some(s) == [given |-> TRUE, val |-> s, list |-> FALSE]

\* the empty list argparse stores for an option whose one argument is "--"
EmptyList == [given |-> TRUE, val |-> <<>>, list |-> TRUE]

\* variant: "is not None" in the place of the truth value
TruthyGiven(opt) == opt.given

\* truth value of a namespace value: None, "" and [] are false
Truthy(opt) == opt.given /\ opt.val # <<>>

OutPath == <<"o", "u", "t", ".", "m", "d">>

\* the namespace before parse_args has returned one
NoArgs == [parsed |-> FALSE, latest_version |-> FALSE,
           release_notes_version |-> None, release_notes_output |-> None]

-----------------------------------------------------------------------------
(* parser.parse_args() of main, line 97: argparse.ArgumentParser with its  *)
(* defaults (prefix character "-", -h/--help added, abbreviations allowed, *)
(* no positional arguments), read from the library the program runs on     *)

\* the option strings of the parser, in the order they were registered
OptH == <<"-", "h">>
OptHelp == <<"-", "-", "h", "e", "l", "p">>
OptLatest == <<"-", "-", "l", "a", "t", "e", "s", "t", "-", "v", "e", "r", "s", "i", "o", "n">>
OptVersion == <<"-", "-", "r", "e", "l", "e", "a", "s", "e", "-", "n", "o", "t", "e", "s", "-", "v", "e", "r", "s", "i", "o", "n">>
OptOutput == <<"-", "-", "r", "e", "l", "e", "a", "s", "e", "-", "n", "o", "t", "e", "s", "-", "o", "u", "t", "p", "u", "t">>
OptionStrings == <<OptH, OptHelp, OptLatest, OptVersion, OptOutput>>

DashDash == <<"-", "-">>

\* the action an option string belongs to, named by its dest
ActionOf(option_string) ==
    CASE option_string \in {OptH, OptHelp} -> "help"
      [] option_string = OptLatest -> "latest_version"
      [] option_string = OptVersion -> "release_notes_version"
      [] option_string = OptOutput -> "release_notes_output"

\* the number of argument strings an action takes: store takes one,
\* store_true and help take none
NArgs(action) ==
    IF action \in {"release_notes_version", "release_notes_output"} THEN 1 ELSE 0

\* the name of an action in an error message: its option strings joined by "/"
ArgumentName(action) ==
    CASE action = "help" -> OptH \o <<"/">> \o OptHelp
      [] action = "latest_version" -> OptLatest
      [] action = "release_notes_version" -> OptVersion
      [] action = "release_notes_output" -> OptOutput

\* ch in s
Has(s, ch) == \E k \in 1..Len(s) : s[k] = ch

\* s.split(ch, 1) for a string that has ch
SplitOnce(s, ch) ==
    LET k == CHOOSE j \in 1..Len(s) : s[j] = ch /\ \A m \in 1..(j - 1) : s[m] # ch
    IN  [head |-> SubSeq(s, 1, k - 1), tail |-> SubSeq(s, k + 1, Len(s))]

\* separator.join(strings)
RECURSIVE Join(_, _)
Join(strings, separator) ==
    IF strings = <<>> THEN <<>>
    ELSE IF Len(strings) = 1 THEN strings[1]
    ELSE strings[1] \o separator \o Join(Tail(strings), separator)

\* the ASCII characters repr() writes as they are (the grave accent, which a
\* string of this module cannot hold, is left out)
Printable ==
    {" ", "!", "\"", "#", "$", "%", "&", "'", "(", ")", "*", "+",
     ",", "-", ".", "/", "0", "1", "2", "3", "4", "5", "6", "7",
     "8", "9", ":", ";", "<", "=", ">", "?", "@", "A", "B", "C",
     "D", "E", "F", "G", "H", "I", "J", "K", "L", "M", "N", "O",
     "P", "Q", "R", "S", "T", "U", "V", "W", "X", "Y", "Z", "[",
     "\\", "]", "^", "_", "a", "b", "c", "d", "e", "f", "g",
     "h", "i", "j", "k", "l", "m", "n", "o", "p", "q", "r", "s",
     "t", "u", "v", "w", "x", "y", "z", "{", "|", "}", "~"}

\* the ASCII control characters U+0001 to U+001F, each at the place of its
\* code, and U+007F
ControlCharacters ==
    <<"", "", "", "", "", "", "", "",
      "\t", "\n", "", "\f", "\r", "", "", "",
      "", "", "", "", "", "", "", "",
      "", "", "", "", "", "", "">>

Delete == ""

HexDigits == <<"0", "1", "2", "3", "4", "5", "6", "7", "8", "9", "a", "b", "c", "d", "e", "f">>

\* the code of an ASCII control character
Ord(c) ==
    IF c = Delete THEN 127
    ELSE CHOOSE i \in 1..Len(ControlCharacters) : ControlCharacters[i] = c

\* the \xNN repr() writes for the character of code n
HexEscape(n) ==
    <<"\\", "x", HexDigits[(n \div 16) + 1], HexDigits[(n % 16) + 1]>>

\* the body of repr(s) for a string of ASCII characters: backslash and the
\* quote in use get a backslash, newline, tab and carriage return are
\* written \n, \t and \r, every other control character \xNN
RECURSIVE Escaped(_, _)
Escaped(s, quote) ==
    IF s = <<>> THEN <<>>
    ELSE LET c == Head(s)
             controls == {ControlCharacters[i] : i \in 1..Len(ControlCharacters)} \cup {Delete}
         IN  (CASE c = "\\" -> <<"\\", "\\">>
                [] c = quote -> <<"\\", quote>>
                [] c = "\n" -> <<"\\", "n">>
                [] c = "\t" -> <<"\\", "t">>
                [] c = "\r" -> <<"\\", "r">>
                [] c \in controls \ {"\n", "\t", "\r"} -> HexEscape(Ord(c))
                [] c \in Printable \ {"\\", quote} -> <<c>>) \o Escaped(Tail(s), quote)

\* repr(s), the %r of a message: double quotes when s has a single quote and
\* no double quote, single quotes otherwise
Repr(s) ==
    IF Has(s, "'") /\ ~Has(s, "\"")
    THEN <<"\"">> \o Escaped(s, "\"") \o <<"\"">>
    ELSE <<"'">> \o Escaped(s, "'") \o <<"'">>

\* _negative_number_matcher, '^-\d+$|^-\d*\.\d+$' under re.match: $ also
\* matches before a final newline
NegativeNumber(s) ==
    LET body == IF s # <<>> /\ s[Len(s)] = "\n" THEN SubSeq(s, 1, Len(s) - 1) ELSE s
        n == Len(body)
    IN  /\ n >= 2
        /\ body[1] = "-"
        /\ \/ \A k \in 2..n : body[k] \in Digits
           \/ \E d \in 2..(n - 1) :
                /\ body[d] = "."
                /\ \A k \in 2..n : k # d => body[k] \in Digits

\* the usage line and the help of the parser; the division into lines
\* follows the width of the terminal and is left out, words are separated by
\* one space. The program name is the file name of the script.
UsageText == <<"usage: validate_versions.py [-h] [--latest-version] [--release-notes-version RELEASE_NOTES_VERSION] [--release-notes-output RELEASE_NOTES_OUTPUT]">>
HelpText == UsageText \o <<" Validate and parse CHANGELOG.md options: -h, --help show this help message and exit --latest-version Print the latest release version from CHANGELOG.md --release-notes-version RELEASE_NOTES_VERSION Version to extract release notes for --release-notes-output RELEASE_NOTES_OUTPUT Path to write extracted release notes">>

\* the line parser.error(message) ends the run with
ErrorLine(message) == <<"validate_versions.py: error: ">> \o message

\* str(ArgumentError(action, message))
ArgumentError(action, message) ==
    <<"argument ">> \o ArgumentName(action) \o <<": ">> \o message

ExpectedOneArgument == <<"expected one argument">>
IgnoredExplicitArgument(explicit_arg) ==
    <<"ignored explicit argument ">> \o Repr(explicit_arg)
UnrecognizedArguments(extras) ==
    <<"unrecognized arguments: ">> \o Join(extras, <<" ">>)
AmbiguousOption(arg_string, option_tuples) ==
    <<"ambiguous option: ">> \o arg_string \o <<" could match ">>
    \o Join([k \in 1..Len(option_tuples) |-> option_tuples[k].option_string],
            <<",", " ">>)

\* an option tuple (action, option_string, explicit_arg); action "" is None
OptionTuple(action, option_string, explicit_arg) ==
    [action |-> action, option_string |-> option_string, explicit_arg |-> explicit_arg]
NoTuple == OptionTuple("", <<>>, None)

\* _get_option_tuples, for a string of two characters or more that starts
\* with "-": after "--" every option string the part before "=" is a prefix
\* of; after one "-" the option string equal to the first two characters,
\* the rest being its explicit argument, and every option string the whole
\* is a prefix of
GetOptionTuples(arg_string) ==
    IF arg_string[2] = "-"
    THEN LET eq == Has(arg_string, "=")
             option_prefix == IF eq THEN SplitOnce(arg_string, "=").head ELSE arg_string
             explicit_arg == IF eq THEN Some(SplitOnce(arg_string, "=").tail) ELSE None
             found == SelectSeq(OptionStrings, LAMBDA o : StartsWith(o, option_prefix))
         IN  [k \in 1..Len(found) |->
                OptionTuple(ActionOf(found[k]), found[k], explicit_arg)]
    ELSE LET short_option_prefix == SubSeq(arg_string, 1, 2)
             short_explicit_arg == SubSeq(arg_string, 3, Len(arg_string))
             found == SelectSeq(OptionStrings,
                          LAMBDA o : o = short_option_prefix \/ StartsWith(o, arg_string))
         IN  [k \in 1..Len(found) |->
                OptionTuple(ActionOf(found[k]), found[k],
                            IF found[k] = short_option_prefix
                            THEN Some(short_explicit_arg) ELSE None)]

\* _parse_optional: kind "A" for a string meant as an argument (None), "O"
\* with its option tuple for an option, "ambiguous" when parser.error is
\* called for a prefix of several option strings
ParseOptional(arg_string) ==
    LET A == [kind |-> "A", tuple |-> NoTuple, message |-> <<>>]
        O(t) == [kind |-> "O", tuple |-> t, message |-> <<>>]
    IN  IF arg_string = <<>> THEN A
        ELSE IF arg_string[1] # "-" THEN A
        ELSE IF \E k \in 1..Len(OptionStrings) : OptionStrings[k] = arg_string
        THEN O(OptionTuple(ActionOf(arg_string), arg_string, None))
        ELSE IF Len(arg_string) = 1 THEN A
        ELSE IF /\ Has(arg_string, "=")
                /\ \E k \in 1..Len(OptionStrings) :
                      OptionStrings[k] = SplitOnce(arg_string, "=").head
        THEN LET parts == SplitOnce(arg_string, "=")
             IN  O(OptionTuple(ActionOf(parts.head), parts.head, Some(parts.tail)))
        ELSE LET option_tuples == GetOptionTuples(arg_string)
             IN  IF Len(option_tuples) > 1
                 THEN [kind |-> "ambiguous", tuple |-> NoTuple,
                       message |-> AmbiguousOption(arg_string, option_tuples)]
                 ELSE IF Len(option_tuples) = 1 THEN O(option_tuples[1])
                 ELSE IF NegativeNumber(arg_string) THEN A
                 ELSE IF Has(arg_string, " ") THEN A
                 ELSE O(OptionTuple("", arg_string, None))

\* the first loop of _parse_known_args: the pattern of the command line, one
\* part for each string: "O" with its option tuple, "A", or "-" for the
\* first "--", after which every string is "A"
RECURSIVE ArgStringsPattern(_, _, _)
ArgStringsPattern(arg_strings, i, parts) ==
    IF i > Len(arg_strings)
    THEN [error |-> FALSE, parts |-> parts, message |-> <<>>]
    ELSE IF arg_strings[i] = DashDash
    THEN [error |-> FALSE,
          parts |-> parts \o <<[kind |-> "-", tuple |-> NoTuple, message |-> <<>>]>>
                    \o [k \in 1..(Len(arg_strings) - i) |->
                          [kind |-> "A", tuple |-> NoTuple, message |-> <<>>]],
          message |-> <<>>]
    ELSE LET part == ParseOptional(arg_strings[i])
         IN  IF part.kind = "ambiguous"
             THEN [error |-> TRUE, parts |-> parts, message |-> part.message]
             ELSE ArgStringsPattern(arg_strings, i + 1, Append(parts, part))

\* the loop of consume_optional for the option at start_index: "extra" for a
\* string that is no option of the parser, "error" with the message of the
\* ArgumentError, or "ok" with the actions to take, each with its argument
\* strings, and the index after them
RECURSIVE ConsumeOptional(_, _, _, _, _, _, _)
ConsumeOptional(arg_strings, parts, start_index, action, option_string, explicit_arg, action_tuples) ==
    LET Error(message) ==
            [kind |-> "error", message |-> ArgumentError(action, message),
             action_tuples |-> <<>>, stop |-> start_index]
        Ok(argument_strings, stop) ==
            [kind |-> "ok", message |-> <<>>,
             action_tuples |-> Append(action_tuples, [action |-> action, args |-> argument_strings]),
             stop |-> stop]
    IN  IF action = ""
        THEN [kind |-> "extra", message |-> <<>>, action_tuples |-> <<>>,
              stop |-> start_index + 1]
        ELSE IF explicit_arg.given
        THEN IF /\ NArgs(action) = 0
                /\ option_string[2] # "-"
                /\ explicit_arg.val # <<>>
             THEN LET next_option == <<option_string[1], explicit_arg.val[1]>>
                      new_explicit_arg ==
                          IF Len(explicit_arg.val) > 1
                          THEN Some(Tail(explicit_arg.val)) ELSE None
                  IN  IF \E k \in 1..Len(OptionStrings) : OptionStrings[k] = next_option
                      THEN ConsumeOptional(arg_strings, parts, start_index,
                               ActionOf(next_option), next_option, new_explicit_arg,
                               Append(action_tuples, [action |-> action, args |-> <<>>]))
                      ELSE Error(IgnoredExplicitArgument(explicit_arg.val))
             ELSE IF NArgs(action) = 1
             THEN Ok(<<explicit_arg.val>>, start_index + 1)
             ELSE Error(IgnoredExplicitArgument(explicit_arg.val))
        ELSE IF NArgs(action) = 0
        THEN Ok(<<>>, start_index + 1)
        ELSE IF start_index + 1 <= Len(parts) /\ parts[start_index + 1].kind = "A"
        THEN Ok(<<arg_strings[start_index + 1]>>, start_index + 2)
        ELSE Error(ExpectedOneArgument)

\* _get_values for an action that takes one argument string: the first "--"
\* is removed from the argument strings, which leaves the empty list
GetValues(arg_strings) ==
    IF arg_strings = <<DashDash>> THEN EmptyList ELSE Some(arg_strings[1])

\* take_action for each of the actions in turn: store_true and store set
\* their dest, help prints the help and exits
RECURSIVE TakeActions(_, _)
TakeActions(action_tuples, namespace) ==
    IF action_tuples = <<>> THEN [help |-> FALSE, namespace |-> namespace]
    ELSE LET t == Head(action_tuples)
         IN  CASE t.action = "help" -> [help |-> TRUE, namespace |-> namespace]
               [] t.action = "latest_version" ->
                    TakeActions(Tail(action_tuples),
                                [namespace EXCEPT !.latest_version = TRUE])
               [] t.action = "release_notes_version" ->
                    TakeActions(Tail(action_tuples),
                                [namespace EXCEPT !.release_notes_version = GetValues(t.args)])
               [] t.action = "release_notes_output" ->
                    TakeActions(Tail(action_tuples),
                                [namespace EXCEPT !.release_notes_output = GetValues(t.args)])

\* the second loop of _parse_known_args and the end of parse_args: options
\* are consumed in turn; the parser has no positional argument, so every
\* other string is left over, and left-over strings are an error at the end
RECURSIVE ParseKnownArgs(_, _, _, _, _)
ParseKnownArgs(arg_strings, parts, start_index, namespace, extras) ==
    IF start_index > Len(arg_strings)
    THEN IF extras # <<>>
         THEN [kind |-> "error", ns |-> namespace,
               msg |-> UnrecognizedArguments(extras)]
         ELSE [kind |-> "namespace", ns |-> namespace, msg |-> <<>>]
    ELSE IF parts[start_index].kind # "O"
    THEN ParseKnownArgs(arg_strings, parts, start_index + 1, namespace,
                        Append(extras, arg_strings[start_index]))
    ELSE LET t == parts[start_index].tuple
             r == ConsumeOptional(arg_strings, parts, start_index, t.action,
                                  t.option_string, t.explicit_arg, <<>>)
         IN  CASE r.kind = "extra" ->
                    ParseKnownArgs(arg_strings, parts, r.stop, namespace,
                                   Append(extras, arg_strings[start_index]))
               [] r.kind = "error" ->
                    [kind |-> "error", ns |-> namespace, msg |-> r.message]
               [] r.kind = "ok" ->
                    LET taken == TakeActions(r.action_tuples, namespace)
                    IN  IF taken.help
                        THEN [kind |-> "help", ns |-> namespace, msg |-> HelpText]
                        ELSE ParseKnownArgs(arg_strings, parts, r.stop,
                                            taken.namespace, extras)

\* parser.parse_args() on a command line: a namespace, the help (exit 0) or
\* the message of parser.error (exit 2)
ParserParseArgs(arg_strings) ==
    LET defaults == [NoArgs EXCEPT !.parsed = TRUE]
        pattern == ArgStringsPattern(arg_strings, 1, <<>>)
    IN  IF pattern.error
        THEN [kind |-> "error", ns |-> defaults, msg |-> pattern.message]
        ELSE ParseKnownArgs(arg_strings, pattern.parts, 1, defaults, <<>>)

-----------------------------------------------------------------------------
(* Command lines and changelogs main is run on                             *)

-----------------------------------------------------------------------------
(* The disk, and Path(path).write_text(notes)                              *)

ChangelogName == <<"C", "H", "A", "N", "G", "E", "L", "O", "G", ".", "m", "d">>
ScriptsName == <<"s", "c", "r", "i", "p", "t", "s">>
ScriptName == <<"v", "a", "l", "i", "d", "a", "t", "e", "_", "v", "e", "r", "s", "i", "o", "n", "s", ".", "p", "y">>

\* stands for the text of the script
ScriptSource == <<"text of scripts/validate_versions.py">>

\* the directories of the disk, each as the names that lead to it from ROOT
Directories == {<<>>, <<ScriptsName>>}

\* the files of the disk when a run starts, the changelog holding this text:
\* each a record of its path from ROOT and of its text
Repository(text) ==
    {[path |-> ChangelogName, text |-> text],
     [path |-> Join(<<ScriptsName, ScriptName>>, <<"/">>), text |-> ScriptSource]}

\* longest name of a directory entry, and length no path reaches
NAME_MAX == 255
PATH_MAX == 4096

\* s.split("/")
RECURSIVE SplitPath(_)
SplitPath(s) ==
    IF ~Has(s, "/") THEN <<s>>
    ELSE LET halves == SplitOnce(s, "/")
         IN  <<halves.head>> \o SplitPath(halves.tail)

\* the root pathlib finds in a path: "//" for exactly two leading slashes,
\* "/" for one or for three and more, none for a relative path
PathRoot(s) ==
    IF s = <<>> \/ s[1] # "/" THEN <<>>
    ELSE IF Len(s) >= 2 /\ s[2] = "/" /\ (Len(s) = 2 \/ s[3] # "/") THEN <<"/", "/">>
    ELSE <<"/">>

\* the names pathlib keeps of a path: the empty ones and "." are dropped
PathParts(s) ==
    SelectSeq(SplitPath(s), LAMBDA name : name # <<>> /\ name # <<".">>)

\* str(Path(s))
PathStr(s) ==
    LET text == PathRoot(s) \o Join(PathParts(s), <<"/">>)
    IN  IF text = <<>> THEN <<".">> ELSE text

Refused(error) == [ok |-> FALSE, error |-> error, file |-> <<>>]

\* the walk of open() from a directory along the names of a path, to the file
\* to create or truncate: ".." is the parent, ROOT being its own; a name
\* before the last must be a directory, the last must not be one
RECURSIVE Resolve(_, _, _)
Resolve(disk, directory, names) ==
    IF names = <<>> THEN Refused("EISDIR")
    ELSE LET name == Head(names)
             entry == IF name = <<".", ".">>
                      THEN SubSeq(directory, 1, Len(directory) - 1)
                      ELSE Append(directory, name)
         IN  IF Len(name) > NAME_MAX THEN Refused("ENAMETOOLONG")
             ELSE IF entry \in Directories THEN Resolve(disk, entry, Tail(names))
             ELSE IF Len(names) = 1
             THEN [ok |-> TRUE, error |-> "", file |-> Join(entry, <<"/">>)]
             ELSE IF \E f \in disk : f.path = Join(entry, <<"/">>) THEN Refused("ENOTDIR")
             ELSE Refused("ENOENT")

\* open(Path(s), "w"): the file opened, or the error of the OSError raised
OpenForWriting(disk, s) ==
    IF Len(PathStr(s)) >= PATH_MAX THEN Refused("ENAMETOOLONG")
    ELSE Resolve(disk, <<>>, PathParts(s))

\* the last line of the traceback of the OSError raised for Path(s)
OSErrorLine(error, s) ==
    (CASE error = "EISDIR" -> <<"IsADirectoryError: [Errno 21] Is a directory: ">>
       [] error = "ENOENT" -> <<"FileNotFoundError: [Errno 2] No such file or directory: ">>
       [] error = "ENOTDIR" -> <<"NotADirectoryError: [Errno 20] Not a directory: ">>
       [] error = "ENAMETOOLONG" -> <<"OSError: [Errno 36] File name too long: ">>)
    \o Repr(PathStr(s))

\* the disk after the text was written to a file, created or replaced
WriteText(disk, file, text) ==
    {f \in disk : f.path # file} \cup {[path |-> file, text |-> text]}

\* most groups of strings on a command line
MaxArgs == 3

\* an output path in a directory that does not exist
NoDirPath == <<"n", "o", "d", "i", "r", "/", "o", "u", "t", ".", "m", "d">>

\* the groups of strings a command line is put together from: the options
\* in full and their values (a version with an entry, one with a leading
\* space, the empty one; an output path that can be written, one that is a
\* directory, one in no directory), an option abbreviated and with "=",
\* the help
ArgParts ==
    << <<OptLatest>>,
       <<OptVersion, <<>>>>,
       <<OptVersion, V100>>,
       <<OptVersion, <<" ">> \o V100>>,
       <<<<"-", "-", "r", "e", "l", "e", "a", "s", "e", "-", "n", "o", "t", "e", "s", "-", "v", "=", "1">>>>,
       <<OptOutput, OutPath>>,
       <<OptOutput \o <<"=", ".">>>>,
       <<OptOutput, NoDirPath>>,
       <<OptHelp>> >>

\* more groups, for the shorter command lines: an empty output path, an
\* option lacking its value, an unknown option, the short help, an ambiguous
\* prefix, an explicit argument for a flag, "--", and as output paths the
\* changelog itself, a path through it, and a path into scripts/ that
\* pathlib rewrites
MoreArgParts ==
    << <<OptOutput \o <<"=">>>>,
       <<<<"-", "-", "b", "o", "g", "u", "s">>>>,
       <<OptOutput>>,
       <<OptH>>,
       <<<<"-", "-", "r", "e", "l", "e", "a", "s", "e", "-", "n", "o", "t", "e", "s">>>>,
       <<OptLatest \o <<"=", "x">>>>,
       <<DashDash>>,
       <<OptOutput, ChangelogName>>,
       <<OptOutput, ChangelogName \o <<"/", "x">>>>,
       <<OptOutput, <<".", "/">> \o ScriptsName \o <<"/", "/", "n">>>> >>

\* every command line of at most MaxArgs groups of the first list, and of
\* fewer groups of both lists
Argvs ==
    { Concat(ArgParts, choice) :
        choice \in UNION {[1..n -> 1..Len(ArgParts)] : n \in 0..MaxArgs} }
    \cup
    { Concat(ArgParts \o MoreArgParts, choice) :
        choice \in UNION {[1..n -> 1..(Len(ArgParts) + Len(MoreArgParts))] :
                             n \in 0..(MaxArgs - 1)} }

\* the changelogs main is run on
MainDocuments ==
    LET T  == Title \o <<"\n">>
        H2 == HeadingLine(V200, DJun1)
        H1 == HeadingLine(V100, DJan1)
        HO == HeadingLine(VOne, DJan1)
        ab == <<"a", "b", "\n">>
    IN  { T \o H2 \o ab \o H1 \o ab,
          T \o H2 \o H1,
          T \o H2 \o HO \o ab,
          T \o H1 \o H2,
          Title \o <<"s", "\n">> \o <<"#", "#", " ", " ">> \o V100
              \o <<" ", "-", " ">> \o DJan1 \o <<"\n">> \o ab }

NoExtract == [called |-> FALSE, version |-> <<>>, raised |-> FALSE, notes |-> <<>>]

-----------------------------------------------------------------------------
(* validate_changelog                                                      *)

TitleMsg == <<"CHANGELOG.md must start with '# Changelog'.">>
NoHeadingsMsg == <<"No release headings found. Expected: '## X.Y.Z - YYYY-MM-DD'.">>
DuplicateMsg(version) == <<"Duplicate changelog version heading found: ">> \o version
DateMsg(version, date_value) ==
    <<"Invalid changelog date for ">> \o version \o <<": ">> \o date_value
OrderMsg == <<"Changelog versions must be strictly descending (newest first).">>

\* variant: the date is checked before the duplicate
HeadingCheckDateFirst(version, date_value, seen_, prev) ==
    IF ~DateIsValid(date_value) THEN "date"
    ELSE IF version \in seen_ THEN "duplicate"
    ELSE IF prev # <<>> /\ TupleGE(ParseSemver(version), prev) THEN "order"
    ELSE "pass"

\* variant: the order is checked before the date
HeadingCheckOrderFirst(version, date_value, seen_, prev) ==
    IF version \in seen_ THEN "duplicate"
    ELSE IF prev # <<>> /\ TupleGE(ParseSemver(version), prev) THEN "order"
    ELSE IF ~DateIsValid(date_value) THEN "date"
    ELSE "pass"

\* the body of the for loop for one heading: which return it takes, if any
HeadingCheck(version, date_value, seen_, prev) ==
    IF version \in seen_ THEN "duplicate"
    ELSE IF ~DateIsValid(date_value) THEN "date"
    ELSE IF prev # <<>> /\ TupleGE(ParseSemver(version), prev) THEN "order"
    ELSE "pass"

\* lines 28-37: read, title check, load_headings, presence check, loop set-up
ValidateStart ==
    /\ pc = "validate"
    /\ IF ~StartsWith(content, Title)
       THEN /\ result' = [ok |-> FALSE, info |-> TitleMsg]
            /\ pc' = "validated"
            /\ UNCHANGED <<headings, idx, seen, previous_version>>
       ELSE LET hs == LoadHeadings(content)
            IN  /\ headings' = hs
                /\ IF hs = <<>>
                   THEN /\ result' = [ok |-> FALSE, info |-> NoHeadingsMsg]
                        /\ pc' = "validated"
                        /\ UNCHANGED <<idx, seen, previous_version>>
                   ELSE /\ pc' = "loop"
                        /\ idx' = 1
                        /\ seen' = {}
                        /\ previous_version' = <<>>
                        /\ UNCHANGED result
    /\ UNCHANGED <<argv, content, args, extract, stdout, stderr, exit_code, files>>

\* lines 38-54: one iteration of the for loop
LoopStep ==
    /\ pc = "loop"
    /\ idx <= Len(headings)
    /\ LET version == headings[idx][1]
           date_value == headings[idx][2]
           check == HeadingCheck(version, date_value, seen, previous_version)
       IN  /\ seen' = seen \cup {version}
           /\ CASE check = "duplicate" ->
                     /\ result' = [ok |-> FALSE, info |-> DuplicateMsg(version)]
                     /\ pc' = "validated"
                     /\ UNCHANGED <<idx, previous_version>>
                [] check = "date" ->
                     /\ result' = [ok |-> FALSE, info |-> DateMsg(version, date_value)]
                     /\ pc' = "validated"
                     /\ UNCHANGED <<idx, previous_version>>
                [] check = "order" ->
                     /\ result' = [ok |-> FALSE, info |-> OrderMsg]
                     /\ pc' = "validated"
                     /\ UNCHANGED <<idx, previous_version>>
                [] check = "pass" ->
                     /\ previous_version' = ParseSemver(version)
                     /\ idx' = idx + 1
                     /\ UNCHANGED <<result, pc>>
    /\ UNCHANGED <<argv, content, args, headings, extract, stdout, stderr, exit_code, files>>

\* line 56: the loop ran off the end of the list
ValidateReturn ==
    /\ pc = "loop"
    /\ idx > Len(headings)
    /\ result' = [ok |-> TRUE, info |-> headings[1][1]]
    /\ pc' = "validated"
    /\ UNCHANGED <<argv, content, args, headings, idx, seen, previous_version,
                   extract, stdout, stderr, exit_code, files>>

\* a caller of the module calls extract_release_notes after validate_changelog
CallExtract ==
    /\ pc = "validated"
    /\ ~args.parsed
    /\ \E version \in ExtractVersions :
         LET r == ExtractReleaseNotes(content, version)
         IN  extract' = [called |-> TRUE, version |-> version,
                         raised |-> r.raised, notes |-> r.notes]
    /\ pc' = "extracted"
    /\ UNCHANGED <<argv, content, args, headings, idx, seen, previous_version, result,
                   stdout, stderr, exit_code, files>>

-----------------------------------------------------------------------------
(* main                                                                    *)

\* line 97: parser.parse_args(): a namespace, or the end of the run by the
\* help (printed on stdout, status 0) or by parser.error (usage and message
\* on stderr, status 2)
ParseArgs ==
    /\ pc = "parse_args"
    /\ LET out == ParserParseArgs(argv)
       IN  CASE out.kind = "namespace" ->
                  /\ args' = out.ns
                  /\ pc' = "validate"
                  /\ UNCHANGED <<stdout, stderr, exit_code>>
             [] out.kind = "help" ->
                  /\ stdout' = Append(stdout, out.msg)
                  /\ exit_code' = 0
                  /\ pc' = "done"
                  /\ UNCHANGED <<args, stderr>>
             [] out.kind = "error" ->
                  /\ stderr' = stderr \o <<UsageText, ErrorLine(out.msg)>>
                  /\ exit_code' = 2
                  /\ pc' = "done"
                  /\ UNCHANGED <<args, stdout>>
    /\ UNCHANGED <<argv, content, headings, idx, seen, previous_version, result,
                   extract, files>>

\* lines 100-102
MainInvalid ==
    /\ pc = "validated"
    /\ args.parsed
    /\ ~result.ok
    /\ stderr' = Append(stderr, result.info)
    /\ exit_code' = 1
    /\ pc' = "done"
    /\ UNCHANGED <<argv, content, args, headings, idx, seen, previous_version, result,
                   extract, stdout, files>>

\* lines 104-106
MainLatest ==
    /\ pc = "validated"
    /\ args.parsed
    /\ result.ok
    /\ args.latest_version
    /\ stdout' = Append(stdout, result.info)
    /\ exit_code' = 0
    /\ pc' = "done"
    /\ UNCHANGED <<argv, content, args, headings, idx, seen, previous_version, result,
                   extract, stderr, files>>

\* lines 108-114
MainUsage ==
    /\ pc = "validated"
    /\ args.parsed
    /\ result.ok
    /\ ~args.latest_version
    /\ Truthy(args.release_notes_version)
    /\ ~Truthy(args.release_notes_output)
    /\ stderr' = Append(stderr,
           <<"--release-notes-output is required with --release-notes-version">>)
    /\ exit_code' = 1
    /\ pc' = "done"
    /\ UNCHANGED <<argv, content, args, headings, idx, seen, previous_version, result,
                   extract, stdout, files>>

\* lines 115-118, and the exceptions leaving main uncaught: the ValueError of
\* line 71, the OSError of line 116
MainNotes ==
    /\ pc = "validated"
    /\ args.parsed
    /\ result.ok
    /\ ~args.latest_version
    /\ Truthy(args.release_notes_version)
    /\ Truthy(args.release_notes_output)
    /\ LET version == args.release_notes_version.val
           path == args.release_notes_output.val
           r == ExtractReleaseNotes(content, version)
           opened == OpenForWriting(files, path)
       IN  /\ extract' = [called |-> TRUE, version |-> version,
                          raised |-> r.raised, notes |-> r.notes]
           /\ IF r.raised
              THEN /\ stderr' = Append(stderr, <<"ValueError: ">> \o r.notes)
                   /\ exit_code' = 1
                   /\ UNCHANGED <<stdout, files>>
              ELSE IF ~opened.ok
              THEN /\ stderr' = Append(stderr, OSErrorLine(opened.error, path))
                   /\ exit_code' = 1
                   /\ UNCHANGED <<stdout, files>>
              ELSE /\ files' = WriteText(files, opened.file, r.notes)
                   /\ stdout' = Append(stdout,
                          <<"Wrote release notes for v">> \o version
                              \o <<" to ">> \o path)
                   /\ exit_code' = 0
                   /\ UNCHANGED stderr
    /\ pc' = "done"
    /\ UNCHANGED <<argv, content, args, headings, idx, seen, previous_version, result>>

\* lines 120-121
MainValid ==
    /\ pc = "validated"
    /\ args.parsed
    /\ result.ok
    /\ ~args.latest_version
    /\ ~Truthy(args.release_notes_version)
    /\ stdout' = Append(stdout,
           <<"CHANGELOG.md format is valid. Latest version: ">> \o result.info)
    /\ exit_code' = 0
    /\ pc' = "done"
    /\ UNCHANGED <<argv, content, args, headings, idx, seen, previous_version, result,
                   extract, stderr, files>>

-----------------------------------------------------------------------------
(* Specifications                                                          *)

InitRun ==
    /\ args = NoArgs
    /\ headings = <<>>
    /\ idx = 0
    /\ seen = {}
    /\ previous_version = <<>>
    /\ result = [ok |-> FALSE, info |-> <<>>]
    /\ extract = NoExtract
    /\ stdout = <<>>
    /\ stderr = <<>>
    /\ exit_code = -1
    /\ files = Repository(content)

\* a run of the script
Init ==
    /\ argv \in Argvs
    /\ content \in MainDocuments
    /\ pc = "parse_args"
    /\ InitRun

Next ==
    \/ ParseArgs
    \/ ValidateStart
    \/ LoopStep
    \/ ValidateReturn
    \/ MainInvalid
    \/ MainLatest
    \/ MainUsage
    \/ MainNotes
    \/ MainValid

Spec == Init /\ [][Next]_vars

\* the functions of the module called directly: validate_changelog, then
\* extract_release_notes
InitLibrary ==
    /\ argv = <<>>
    /\ content \in Documents(Prefixes, Segments)
    /\ pc = "validate"
    /\ InitRun

NextLibrary ==
    \/ ValidateStart
    \/ LoopStep
    \/ ValidateReturn
    \/ CallExtract

SpecLibrary == InitLibrary /\ [][NextLibrary]_vars

-----------------------------------------------------------------------------
(* Vocabulary of the properties                                            *)

\* the release headings of the text, top to bottom
Hs == LoadHeadings(content)

\* numeric triple of the k-th heading of hs
TripleOf(hs, k) == ParseSemver(hs[k][1])

\* a is strictly less than b as (major, minor, patch)
TripleLess(a, b) ==
    \/ a[1] < b[1]
    \/ a[1] = b[1] /\ a[2] < b[2]
    \/ a[1] = b[1] /\ a[2] = b[2] /\ a[3] < b[3]

\* the text starts with the characters "# Changelog"
Titled == Len(content) >= Len(Title) /\ SubSeq(content, 1, Len(Title)) = Title

\* the first line of the text is exactly "# Changelog"
TitleLine ==
    /\ Titled
    /\ (Len(content) = Len(Title) \/ content[Len(Title) + 1] = "\n")

\* heading k repeats the version string of a heading above it
Repeats(hs, k) == \E j \in 1..(k - 1) : hs[j][1] = hs[k][1]

\* heading k is not strictly below its predecessor
NotBelow(hs, k) == k > 1 /\ ~TripleLess(TripleOf(hs, k), TripleOf(hs, k - 1))

\* heading k fails one of the three per-heading checks
Defect(hs, k) == Repeats(hs, k) \/ ~DateIsValid(hs[k][2]) \/ NotBelow(hs, k)

\* validate_changelog has just returned
Returned == pc = "validated"

\* C1: a text that starts with the title and whose N >= 1 headings have
\* pairwise distinct version strings, valid dates and strictly decreasing
\* triples validates, and the value returned is the first heading's version.
C1_WellFormedValidates ==
    Returned =>
      LET hs == Hs
      IN  (/\ Titled
           /\ Len(hs) >= 1
           /\ \A j, k \in 1..Len(hs) : j # k => hs[j][1] # hs[k][1]
           /\ \A k \in 1..Len(hs) : DateIsValid(hs[k][2])
           /\ \A k \in 2..Len(hs) : TripleLess(TripleOf(hs, k), TripleOf(hs, k - 1)))
          => result = [ok |-> TRUE, info |-> hs[1][1]]

\* three well-formed headings were validated
C1_Witness ==
    /\ Returned
    /\ Titled
    /\ LET hs == Hs
       IN  /\ Len(hs) = 3
           /\ \A k \in 1..3 : DateIsValid(hs[k][2])
           /\ \A k \in 2..3 : TripleLess(TripleOf(hs, k), TripleOf(hs, k - 1))
           /\ result.info = hs[1][1]
    /\ result.ok

\* C2 as stated: two headings with the same version string make validation
\* fail with the duplicate-version message naming that version, whatever
\* else the text holds. Stated for the texts that start with the title, the
\* reading most favourable to it.
C2_DuplicateAlwaysReported ==
    (Returned /\ Titled) =>
      LET hs == Hs
      IN  (\E k \in 1..Len(hs) : Repeats(hs, k))
          => \E k \in 1..Len(hs) :
                /\ Repeats(hs, k)
                /\ result = [ok |-> FALSE, info |-> DuplicateMsg(hs[k][1])]

\* C2 amended: two headings with the same version string make validation
\* fail; the diagnostic is the duplicate-version message, naming the version
\* of the first heading that repeats one above it, when the text starts with
\* "# Changelog" and no heading above that one fails a check.
C2_DuplicateFails ==
    Returned =>
      LET hs == Hs
      IN  \A k \in 1..Len(hs) :
            Repeats(hs, k)
            => /\ ~result.ok
               /\ (Titled /\ \A j \in 1..(k - 1) : ~Defect(hs, j))
                  => result.info = DuplicateMsg(hs[k][1])

\* the third heading repeats the first, with another heading between them
\* and nothing above it defective; it is out of order as well
C2_Witness ==
    /\ Returned
    /\ Titled
    /\ LET hs == Hs
       IN  /\ Len(hs) = 3
           /\ hs[3][1] = hs[1][1]
           /\ ~Defect(hs, 1) /\ ~Defect(hs, 2)
           /\ NotBelow(hs, 3)
           /\ result.info = DuplicateMsg(hs[3][1])

\* C3 as stated: a heading whose triple is not strictly less than that of the
\* heading before it makes validation fail with the ordering message. Stated
\* for the texts that start with the title, the reading most favourable to it.
C3_OrderingAlwaysReported ==
    (Returned /\ Titled) =>
      LET hs == Hs
      IN  (\E k \in 1..Len(hs) : NotBelow(hs, k))
          => result = [ok |-> FALSE, info |-> OrderMsg]

\* C3 amended: such a heading makes validation fail; the diagnostic is the
\* ordering message when the text starts with "# Changelog", no heading
\* above fails a check, and the heading itself has a version string not seen
\* before and a valid date.
C3_NotDescendingFails ==
    Returned =>
      LET hs == Hs
      IN  \A k \in 1..Len(hs) :
            NotBelow(hs, k)
            => /\ ~result.ok
               /\ (/\ Titled
                   /\ \A j \in 1..(k - 1) : ~Defect(hs, j)
                   /\ ~Repeats(hs, k)
                   /\ DateIsValid(hs[k][2]))
                  => result.info = OrderMsg

\* a heading with the same triple as its predecessor but another version
\* string (1.0.0 after 01.0.0 or the reverse) got the ordering message
C3_Witness ==
    /\ Returned
    /\ Titled
    /\ result = [ok |-> FALSE, info |-> OrderMsg]
    /\ LET hs == Hs
       IN  \E k \in 2..Len(hs) :
              /\ TripleOf(hs, k) = TripleOf(hs, k - 1)
              /\ hs[k][1] # hs[k - 1][1]
              /\ \A j \in 1..(k - 1) : ~Defect(hs, j)

\* C4 as stated: a text whose first line is not the title line "# Changelog"
\* fails with the title diagnostic, whichever headings it holds. Stated for
\* the texts that hold at least one heading.
C4_TitleLineRequired ==
    (Returned /\ ~TitleLine /\ Len(Hs) >= 1)
    => result = [ok |-> FALSE, info |-> TitleMsg]

\* C4 amended: a text that does not start with the characters "# Changelog"
\* fails with the title diagnostic whatever headings it holds, and no heading
\* has been loaded or examined (a longer first line such as "# Changelogs"
\* passes the title check).
C4_TitlePrefixRequired ==
    (Returned /\ ~Titled)
    => /\ result = [ok |-> FALSE, info |-> TitleMsg]
       /\ headings = <<>>
       /\ idx = 0
       /\ seen = {}
       /\ previous_version = <<>>

\* an untitled text with a repeated and a misdated heading got the title
\* diagnostic
C4_Witness ==
    /\ Returned
    /\ ~Titled
    /\ result.info = TitleMsg
    /\ LET hs == Hs
       IN  \E k \in 1..Len(hs) : Repeats(hs, k) /\ ~DateIsValid(hs[k][2])

\* the matches of HEADING_RE over the whole text, with their positions
Ms == FindIter(content, 1)

\* the text owned by the k-th match: from its end to the start of the next
\* match, or to the end of the text
Body(ms, k) ==
    Slice(content, ms[k].end,
          IF k < Len(ms) THEN ms[k + 1].start ELSE Len(content) + 1)

\* s without its leading and trailing whitespace, one character at a time
RECURSIVE Trimmed(_)
Trimmed(s) ==
    IF s = <<>> THEN s
    ELSE IF Head(s) \in Whitespace THEN Trimmed(Tail(s))
    ELSE IF s[Len(s)] \in Whitespace THEN Trimmed(SubSeq(s, 1, Len(s) - 1))
    ELSE s

\* the notes of the k-th match
NotesOf(ms, k) ==
    LET body == Trimmed(Body(ms, k))
    IN  IF body = <<>> THEN <<"Release v">> \o ms[k].version ELSE body

\* the topmost match for a version
FirstFor(ms, version) ==
    CHOOSE k \in 1..Len(ms) :
        /\ ms[k].version = version
        /\ \A j \in 1..(k - 1) : ms[j].version # version

\* C5: for a text with a heading for V, extract_release_notes(V) returns the
\* trimmed text between the end of V's (topmost) heading and the start of the
\* next heading of any version, or the end of the text, and "Release vV" when
\* that is empty; never the empty string.
C5_NotesAreOwnBody ==
    pc = "extracted" =>
      LET ms == Ms
      IN  (\E k \in 1..Len(ms) : ms[k].version = extract.version)
          => /\ ~extract.raised
             /\ extract.notes = NotesOf(ms, FirstFor(ms, extract.version))
             /\ extract.notes # <<>>

\* notes were extracted for a heading that has text below it, whitespace
\* around that text, and another heading after it
C5_Witness ==
    /\ pc = "extracted"
    /\ LET ms == Ms
       IN  \E k \in 1..(Len(ms) - 1) :
              /\ ms[k].version = extract.version
              /\ Trimmed(Body(ms, k)) # <<>>
              /\ Trimmed(Body(ms, k)) # Body(ms, k)
              /\ extract.notes = Trimmed(Body(ms, k))

\* C8: when validation succeeds every heading's triple is strictly greater
\* than that of every heading below it, and the version returned is the
\* greatest of all heading versions.
C8_GloballyDescending ==
    (Returned /\ result.ok) =>
      LET hs == Hs
      IN  /\ \A j, k \in 1..Len(hs) :
                j < k => TripleLess(TripleOf(hs, k), TripleOf(hs, j))
          /\ \E k \in 1..Len(hs) : result.info = hs[k][1]
          /\ \A k \in 1..Len(hs) :
                ~TripleLess(ParseSemver(result.info), TripleOf(hs, k))

\* three headings validated, the first and the last differing in the major
\* number
C8_Witness ==
    /\ Returned
    /\ result.ok
    /\ LET hs == Hs
       IN  /\ Len(hs) = 3
           /\ TripleOf(hs, 3)[1] < TripleOf(hs, 1)[1]
           /\ ParseSemver(result.info) = TripleOf(hs, 1)

\* the diagnostic of the k-th heading, by the fixed order of the checks
DiagnosticOf(hs, k) ==
    IF Repeats(hs, k) THEN DuplicateMsg(hs[k][1])
    ELSE IF ~DateIsValid(hs[k][2]) THEN DateMsg(hs[k][1], hs[k][2])
    ELSE OrderMsg

\* C9: when a titled text with headings fails validation, the loop stopped at
\* the first heading with a defect, the diagnostic is that heading's, decided
\* in the order duplicate, date, ordering, and no heading after it was
\* examined.
C9_FirstDefectDecides ==
    (Returned /\ Titled /\ ~result.ok) =>
      LET hs == Hs
      IN  Len(hs) >= 1
          => /\ idx \in 1..Len(hs)
             /\ Defect(hs, idx)
             /\ \A j \in 1..(idx - 1) : ~Defect(hs, j)
             /\ result.info = DiagnosticOf(hs, idx)
             /\ seen = {hs[j][1] : j \in 1..idx}

\* the second heading has an invalid date and is not below the first, the
\* third repeats the first: the date diagnostic of the second was reported
C9_Witness ==
    /\ Returned
    /\ Titled
    /\ idx = 2
    /\ LET hs == Hs
       IN  /\ Len(hs) = 3
           /\ ~Defect(hs, 1)
           /\ ~Repeats(hs, 2) /\ ~DateIsValid(hs[2][2]) /\ NotBelow(hs, 2)
           /\ Repeats(hs, 3)
           /\ result.info = DateMsg(hs[2][1], hs[2][2])

\* C10: when validation succeeds, for every version of load_headings the
\* pattern of extract_release_notes matches at exactly one place, the start of
\* that heading, extraction does not raise and returns the notes of that
\* heading; so does extraction for the version returned.
C10_ExtractorAgrees ==
    /\ (Returned /\ result.ok) =>
         LET ms == Ms
         IN  /\ \A k \in 1..Len(ms) :
                   LET r == ExtractReleaseNotes(content, ms[k].version)
                   IN  /\ ~r.raised
                       /\ {p \in 1..Len(content) :
                              VersionHeadingAt(content, p, ms[k].version).ok}
                            = {ms[k].start}
                       /\ r.notes = NotesOf(ms, k)
             /\ ~ExtractReleaseNotes(content, result.info).raised
    /\ (pc = "extracted" /\ result.ok /\ extract.version \in seen)
       => ~extract.raised

\* after a successful validation of three headings, notes were extracted for
\* the second one
C10_Witness ==
    /\ pc = "extracted"
    /\ result.ok
    /\ ~extract.raised
    /\ LET ms == Ms
       IN  /\ Len(ms) = 3
           /\ extract.version = ms[2].version
           /\ extract.notes = NotesOf(ms, 2)

\* a release heading of the text has this version
HasHeading(version) == \E k \in 1..Len(headings) : headings[k][1] = version

\* an option was given on the command line
Supplied(opt) == opt.given

\* an option was given with a non-empty value
NonEmpty(opt) == opt.given /\ Len(opt.val) > 0

UsageMsg == <<"--release-notes-output is required with --release-notes-version">>
ValidMsg == <<"CHANGELOG.md format is valid. Latest version: ">> \o result.info

\* no file has been written
NothingWritten == files = Repository(content)

\* nothing has been printed, written, extracted or decided
Silent ==
    /\ stdout = <<>> /\ stderr = <<>> /\ NothingWritten
    /\ ~extract.called /\ exit_code = -1

\* p is the beginning of s
IsPrefix(p, s) == Len(p) <= Len(s) /\ SubSeq(s, 1, Len(p)) = p

\* the part of a string before its first "="
BeforeEq(tok) ==
    IF \E k \in 1..Len(tok) : tok[k] = "="
    THEN SubSeq(tok, 1, (CHOOSE k \in 1..Len(tok) :
                            tok[k] = "=" /\ \A m \in 1..(k - 1) : tok[m] # "=") - 1)
    ELSE tok

\* the part of a string after its first "="
AfterEq(tok) == SubSeq(tok, Len(BeforeEq(tok)) + 2, Len(tok))

\* the string names this option: in full, or by a beginning no other option
\* shares, with or without "=" and a value
Designates(tok, name) ==
    \/ tok = name
    \/ /\ IsPrefix(BeforeEq(tok), name)
       /\ \A other \in {OptHelp, OptLatest, OptVersion, OptOutput} \ {name} :
            ~IsPrefix(BeforeEq(tok), other)

\* the command line has this option
HasOpt(name) == \E i \in 1..Len(argv) : Designates(argv[i], name)

\* the value given with the last occurrence of this option: what follows
\* its "=", or else the next string
LastValue(name) ==
    LET i == CHOOSE j \in 1..Len(argv) :
                 /\ Designates(argv[j], name)
                 /\ \A k \in (j + 1)..Len(argv) : ~Designates(argv[k], name)
    IN  IF BeforeEq(argv[i]) # argv[i] THEN AfterEq(argv[i]) ELSE argv[i + 1]

\* the command line asks for the help: -h, possibly repeated in one string,
\* or --help, possibly abbreviated
HelpAsked ==
    \E i \in 1..Len(argv) :
        \/ Designates(argv[i], OptHelp)
        \/ IsPrefix(OptH, argv[i])

\* the namespace says what the command line says, the last occurrence of an
\* option deciding its value
ArgsAsGiven ==
    /\ args.latest_version <=> HasOpt(OptLatest)
    /\ \A name \in {OptVersion, OptOutput} :
         LET opt == IF name = OptVersion
                    THEN args.release_notes_version
                    ELSE args.release_notes_output
         IN  /\ Supplied(opt) <=> HasOpt(name)
             /\ Supplied(opt) =>
                  IF opt.list THEN LastValue(name) = DashDash
                  ELSE opt.val = LastValue(name)

\* nothing was validated, extracted or written
NotValidated ==
    /\ ~result.ok /\ result.info = <<>> /\ headings = <<>>
    /\ ~extract.called /\ NothingWritten

\* the run ended inside parse_args: with the help on stdout and status 0,
\* or with the usage and one message on stderr and status 2
EndedByParser ==
    /\ NotValidated
    /\ \/ /\ HelpAsked
          /\ stdout = <<HelpText>> /\ stderr = <<>> /\ exit_code = 0
       \/ /\ stdout = <<>> /\ exit_code = 2
          /\ Len(stderr) = 2 /\ stderr[1] = UsageText

\* a run has ended in the branch its arguments select; notesAsked tells
\* whether --release-notes-version counts as asked for
Dispatched(notesAsked) ==
    /\ result.ok \/ result.info # <<>>
    /\ IF ~result.ok
       THEN /\ stderr = <<result.info>> /\ exit_code = 1
            /\ stdout = <<>> /\ NothingWritten /\ ~extract.called
       ELSE IF args.latest_version
       THEN /\ stdout = <<result.info>> /\ exit_code = 0
            /\ result.info = headings[1][1]
            /\ stderr = <<>> /\ NothingWritten /\ ~extract.called
       ELSE IF notesAsked
       THEN \/ /\ stderr = <<UsageMsg>> /\ exit_code = 1
               /\ stdout = <<>> /\ NothingWritten /\ ~extract.called
            \/ /\ extract.called
               /\ extract.version = args.release_notes_version.val
               /\ ValidMsg \notin {stdout[k] : k \in 1..Len(stdout)}
       ELSE /\ stdout = <<ValidMsg>> /\ exit_code = 0
            /\ stderr = <<>> /\ NothingWritten /\ ~extract.called

\* C6 as stated: in every run validation comes before anything else, then
\* exactly one branch: failure; else --latest-version; else the notes branch
\* when --release-notes-version is supplied; else the success message.
C6_BranchBySupplied ==
    /\ pc # "done" => Silent
    /\ pc = "done" => Dispatched(Supplied(args.release_notes_version))

\* C6 amended: a run in which parse_args returns a namespace validates
\* before anything else and then takes exactly one branch: failure; else
\* --latest-version; else the notes branch when --release-notes-version is
\* supplied with a non-empty value (an empty value counts as absent); else
\* the success message. A run in which parse_args ends the process does not
\* validate: the help and status 0, or a usage error on stderr and status 2.
C6_BranchByValue ==
    /\ pc # "done" => Silent
    /\ pc = "done" =>
         IF args.parsed
         THEN /\ ArgsAsGiven
              /\ ~HelpAsked
              /\ Dispatched(NonEmpty(args.release_notes_version))
         ELSE EndedByParser

\* --latest-version was given together with a version that has an entry and
\* an output path: the latest version was printed and nothing was written
C6_Witness ==
    /\ pc = "done"
    /\ args.latest_version
    /\ NonEmpty(args.release_notes_version)
    /\ NonEmpty(args.release_notes_output)
    /\ HasHeading(args.release_notes_version.val)
    /\ stdout = <<result.info>>
    /\ NothingWritten
    /\ exit_code = 0

\* the pattern of extract_release_notes for this version matches the text
HasEntry(version) ==
    \E p \in 1..Len(content) : VersionHeadingAt(content, p, version).ok

\* the file, and no other, differs from what the disk held when the run
\* started, and it holds this text
OnlyFileHolds(file, text) ==
    /\ \E f \in files : f.path = file
    /\ \A f \in files : f.path = file => f.text = text
    /\ {f \in files : f.path # file} = {f \in Repository(content) : f.path # file}

\* the output path can be opened for writing on the disk of the run: it is
\* not a directory, and what stands before its last name is one
CanBeWritten(opt) == OpenForWriting(Repository(content), opt.val).ok

\* the file the output path names holds the notes extracted for the version
\* asked for
NotesWritten ==
    /\ extract.called /\ ~extract.raised
    /\ extract.version = args.release_notes_version.val
    /\ CanBeWritten(args.release_notes_output)
    /\ OnlyFileHolds(
           OpenForWriting(Repository(content), args.release_notes_output.val).file,
           extract.notes)
    /\ HasHeading(extract.version)
       => LET ms == Ms IN extract.notes = NotesOf(ms, FirstFor(ms, extract.version))

\* C7 as stated: with --release-notes-version V and without --latest-version
\* the status is 0 exactly when validation succeeded, --release-notes-output
\* was supplied and the text has a heading for V, and then the output path
\* holds the notes; otherwise the status is not 0 and nothing is written.
C7_NotesStatusBySupplied ==
    (/\ pc = "done"
     /\ HasOpt(OptVersion)
     /\ ~HasOpt(OptLatest))
    => /\ exit_code = 0
          <=> (/\ result.ok
               /\ Supplied(args.release_notes_output)
               /\ HasHeading(args.release_notes_version.val))
       /\ exit_code = 0 => NotesWritten
       /\ exit_code # 0 => NothingWritten

\* C7 amended: in a run in which parse_args returns a namespace, with a
\* non-empty --release-notes-version V and without --latest-version the
\* status is 0 exactly when validation succeeded, --release-notes-output was
\* supplied with a non-empty value, the pattern "## V - <date>" of the
\* extractor (V taken literally, three-part or not, after one or more
\* whitespace characters) matches the text, and the output path can be
\* opened for writing (it is no directory and lies in one); then the file it
\* names holds the notes and no other file has changed; otherwise the status
\* is 1 and nothing is written. With an empty V the status is 0 exactly when
\* validation succeeded, and nothing is written. In a run in which
\* parse_args ends the process nothing is validated or written: the status
\* is 0 for the help and 2 for a usage error.
C7_NotesStatusByValue ==
    (/\ pc = "done"
     /\ HasOpt(OptVersion)
     /\ ~HasOpt(OptLatest))
    => IF ~args.parsed
       THEN /\ NotValidated
            /\ exit_code \in {0, 2}
            /\ exit_code = 0 => HelpAsked /\ stdout = <<HelpText>>
            /\ exit_code = 2 => stdout = <<>> /\ stderr # <<>>
       ELSE IF NonEmpty(args.release_notes_version)
       THEN /\ args.release_notes_version.val = LastValue(OptVersion)
            /\ exit_code = 0
               <=> (/\ result.ok
                    /\ NonEmpty(args.release_notes_output)
                    /\ HasEntry(args.release_notes_version.val)
                    /\ CanBeWritten(args.release_notes_output))
            /\ exit_code = 0 => NotesWritten
            /\ exit_code # 0 => exit_code = 1 /\ NothingWritten
       ELSE /\ exit_code = 0 <=> result.ok
            /\ exit_code \in {0, 1}
            /\ NothingWritten

\* the notes of the lower of two headings were written to the output path,
\* a new file beside the changelog
C7_Witness ==
    /\ pc = "done"
    /\ HasOpt(OptVersion)
    /\ ~HasOpt(OptLatest)
    /\ exit_code = 0
    /\ LET ms == Ms
       IN  /\ Len(ms) >= 2
           /\ args.release_notes_version.val = ms[2].version
           /\ files = Repository(content)
                        \cup {[path |-> OutPath, text |-> NotesOf(ms, 2)]}

====
